---- MODULE Spec2Model ----
(***************************************************************************)
(* Beginner Coder API (src/main.py): a FastAPI application serving a       *)
(* static catalog of languages and a database diagnostics endpoint.        *)
(*                                                                         *)
(* Python str values are TLA+ strings (Len, SubSeq and \o act on them      *)
(* character by character).  Optional[str] values are records, see None    *)
(* and Some.  The module is ASCII: the emoji that prefix the diagnostics   *)
(* texts of main.py are written as the tags [ok], [x] and [!].             *)
(***************************************************************************)
EXTENDS Integers, Sequences, FiniteSets, TLC

VARIABLES
    LANGUAGES,   \* the module-level catalog list (main.py:37)
    environ,     \* os.environ of the server process
    pending,     \* pending[w]: the request worker w is serving, or NoRequest
    response     \* response[w]: the response worker w produced, or NoResponse

vars == <<LANGUAGES, environ, pending, response>>

-----------------------------------------------------------------------------
(* Bounds of the model *)

\* longest generated query string
MaxQueryLen == 3
\* most collection names the database handle enumerates
MaxColls == 11
\* longest error message an exception carries
MaxErrLen == 51
\* worker threads serving requests concurrently (SpecConc)
NumWorkers == 2

-----------------------------------------------------------------------------
(* Python values *)

\* Optional[str]
None == [isNone |-> TRUE, str |-> ""]
Some(s) == [isNone |-> FALSE, str |-> s]

\* truth value of an Optional[str]: None and "" are falsy
truthy(o) == ~o.isNone /\ o.str # ""

UpperCase == "ABCDEFGHIJKLMNOPQRSTUVWXYZ"
LowerCase == "abcdefghijklmnopqrstuvwxyz"

\* characters str.strip() removes
Whitespace == {" ", "\t", "\n", "\r", "\f"}

\* the lower-case letter of every upper-case letter
LowerOf ==
    [c \in {SubSeq(UpperCase, i, i) : i \in 1..Len(UpperCase)} |->
        LET i == CHOOSE j \in 1..Len(UpperCase) : SubSeq(UpperCase, j, j) = c
        IN  SubSeq(LowerCase, i, i)]

char_lower(c) == IF c \in DOMAIN LowerOf THEN LowerOf[c] ELSE c

RECURSIVE str_lower(_)
\* str.lower()
str_lower(s) ==
    IF s = "" THEN ""
    ELSE char_lower(SubSeq(s, 1, 1)) \o str_lower(SubSeq(s, 2, Len(s)))

RECURSIVE str_lstrip(_)
str_lstrip(s) ==
    IF s # "" /\ SubSeq(s, 1, 1) \in Whitespace
    THEN str_lstrip(SubSeq(s, 2, Len(s)))
    ELSE s

RECURSIVE str_rstrip(_)
str_rstrip(s) ==
    IF s # "" /\ SubSeq(s, Len(s), Len(s)) \in Whitespace
    THEN str_rstrip(SubSeq(s, 1, Len(s) - 1))
    ELSE s

\* mutant of str_strip: only the leading whitespace is removed
str_strip_leading_only(s) == str_lstrip(s)

\* str.strip()
str_strip(s) == str_rstrip(str_lstrip(s))

\* sub in s
str_in(sub, s) ==
    \E i \in 1..(Len(s) - Len(sub) + 1) : SubSeq(s, i, i + Len(sub) - 1) = sub

\* s[:n], for strings and lists
slice_to(s, n) == SubSeq(s, 1, IF Len(s) < n THEN Len(s) ELSE n)

-----------------------------------------------------------------------------
(* The catalog *)

Snippet(title, language, code, explanation) ==
    [title |-> title, language |-> language, code |-> code,
     explanation |-> explanation]

Language(id, name, description, difficulty, topics, hello_world, tips, resources) ==
    [id |-> id, name |-> name, description |-> description,
     difficulty |-> difficulty, topics |-> topics, hello_world |-> hello_world,
     tips |-> tips, resources |-> resources]

Resource(label, url) == [label |-> label, url |-> url]

\* the list literal assigned to LANGUAGES
LANGUAGES_literal == <<
    Language("python", "Python",
        "Friendly, readable, and great for beginners. Used for web, data, AI, scripts, and more.",
        "Easy",
        <<"Variables", "Loops", "Functions", "Lists", "Dictionaries">>,
        Snippet("Hello, World!", "python",
            "# hello.py\nprint('Hello, World!')",
            "Run with: python hello.py"),
        <<"Use meaningful names: total_price, user_age",
          "Prefer f-strings for formatting",
          "Read errors from bottom-up: the final line often explains it">>,
        <<Resource("Official Docs", "https://docs.python.org/3/"),
          Resource("W3Schools", "https://www.w3schools.com/python/")>>),
    Language("c", "C",
        "Low-level power and speed. Great for understanding how computers work.",
        "Medium",
        <<"Compilation", "Pointers", "Arrays", "Structs", "Headers">>,
        Snippet("Hello, World!", "c",
            "// hello.c\n#include <stdio.h>\n\nint main() {\n    printf(\"Hello, World!\\n\");\n    return 0;\n}",
            "Compile with: gcc hello.c -o hello\nRun: ./hello"),
        <<"Always initialize your variables",
          "Check return values of functions like malloc and fopen",
          "Use -Wall -Wextra flags with gcc to catch bugs early">>,
        <<Resource("C Reference", "https://en.cppreference.com/w/c"),
          Resource("Learn C", "https://www.learn-c.org/")>>),
    Language("cpp", "C++",
        "C with high-level features: OOP, templates, and the STL.",
        "Medium",
        <<"Classes", "Vectors", "References", "STL", "Templates">>,
        Snippet("Hello, World!", "cpp",
            "// hello.cpp\n#include <iostream>\nusing namespace std;\n\nint main() {\n    cout << \"Hello, World!\" << endl;\n    return 0;\n}",
            "Compile with: g++ hello.cpp -o hello\nRun: ./hello"),
        <<"Prefer std::vector over raw arrays",
          "Use references (T&) to avoid unnecessary copies",
          "Learn RAII to manage resources safely">>,
        <<Resource("cppreference", "https://en.cppreference.com/w/"),
          Resource("Learn C++", "https://www.learncpp.com/")>>),
    Language("html", "HTML & CSS",
        "The building blocks of the web: structure (HTML) and style (CSS).",
        "Easy",
        <<"Tags", "Attributes", "Semantic HTML", "Selectors", "Flexbox", "Grid">>,
        Snippet("A simple page", "html",
            "<!-- index.html -->\n<!doctype html>\n<html lang=\"en\">\n  <head>\n    <meta charset=\"UTF-8\" />\n    <meta name=\"viewport\" content=\"width=device-width, initial-scale=1.0\" />\n    <title>Hello</title>\n  </head>\n  <body>\n    <h1>Hello, World!</h1>\n    <p>Welcome to the web!</p>\n  </body>\n</html>",
            "Open the file in your browser. Use VS Code Live Server for quick reloads."),
        <<"Use semantic tags: header, nav, main, section, footer",
          "Mobile-first: start with small screens, then add @media rules",
          "Use CSS Flexbox/Grid for layout instead of floats">>,
        <<Resource("MDN Web Docs", "https://developer.mozilla.org/en-US/"),
          Resource("Flexbox Froggy", "https://flexboxfroggy.com/")>>)
>>

-----------------------------------------------------------------------------
(* Requests and responses *)

NoRequest == [endpoint |-> "none"]
NoResponse == [status |-> 0]

\* status of a response a handler returns
HTTP_OK == 200
\* status of HTTPException(status_code=404)
HTTP_NOT_FOUND == 404
\* status FastAPI answers with when an exception leaves a handler
HTTP_SERVER_ERROR == 500

\* any(query in t.lower() for t in topics)
any_topic(query, topics) ==
    \E k \in 1..Len(topics) : str_in(query, str_lower(topics[k]))

\* mutant of list_languages_result: the topics are not searched
list_languages_names_only(q) ==
    IF ~truthy(q) THEN LANGUAGES
    ELSE LET query == str_strip(str_lower(q.str))
             Keep(lang) == str_in(query, str_lower(lang.name))
         IN  SelectSeq(LANGUAGES, Keep)

\* mutant of list_languages_result: no query, no result
list_languages_nothing_without_query(q) ==
    IF ~truthy(q) THEN <<>>
    ELSE LET query == str_strip(str_lower(q.str))
             Keep(lang) == \/ str_in(query, str_lower(lang.name))
                           \/ any_topic(query, lang.topics)
         IN  SelectSeq(LANGUAGES, Keep)

\* GET /api/languages: the value list_languages returns for parameter q; the
\* list comprehension [lang for lang in LANGUAGES if ...] is SelectSeq
list_languages_result(q) ==
    IF ~truthy(q) THEN LANGUAGES
    ELSE LET query == str_strip(str_lower(q.str))
             Keep(lang) == \/ str_in(query, str_lower(lang.name))
                           \/ any_topic(query, lang.topics)
         IN  SelectSeq(LANGUAGES, Keep)

\* GET /api/languages/{lang_id}: the first record with that id, or the 404
RECURSIVE first_with_id(_, _)
first_with_id(langs, lang_id) ==
    IF langs = <<>> THEN [status |-> HTTP_NOT_FOUND,
                          body |-> [detail |-> "Language not found"]]
    ELSE IF Head(langs).id = lang_id THEN [status |-> HTTP_OK, body |-> Head(langs)]
    ELSE first_with_id(Tail(langs), lang_id)

\* mutant of get_language_result: the ids are compared ignoring letter case
get_language_ignoring_case(lang_id) ==
    LET hits == {i \in 1..Len(LANGUAGES) :
                    str_lower(LANGUAGES[i].id) = str_lower(lang_id)}
    IN  IF hits = {} THEN [status |-> HTTP_NOT_FOUND,
                           body |-> [detail |-> "Language not found"]]
        ELSE [status |-> HTTP_OK,
              body |-> LANGUAGES[CHOOSE i \in hits : \A j \in hits : i <= j]]

\* mutant of get_language_result: the loop falls through without raising, the
\* handler returns None and the response model rejects it
get_language_without_raise(lang_id) ==
    LET found == first_with_id(LANGUAGES, lang_id)
    IN  IF found.status = HTTP_OK THEN found
        ELSE [status |-> HTTP_SERVER_ERROR, body |-> "Internal Server Error"]

get_language_result(lang_id) == first_with_id(LANGUAGES, lang_id)


\* GET /
read_root_result == [status |-> HTTP_OK,
                     body |-> [message |-> "Hello from FastAPI Backend!"]]

\* GET /api/hello
hello_result == [status |-> HTTP_OK,
                 body |-> [message |-> "Hello from the backend API!"]]

-----------------------------------------------------------------------------
(* The database collaborator, as GET /test meets it *)

\* what line 167 to 178 find: the outcome of "from database import db"
\* (module is "ImportError", "Exception" or "ok"), the handle (handle is
\* "None" or "object"), its name attribute (name is "absent", "raises" or
\* "present" with name_value), list_collection_names() (enum is "ok" with
\* names, or "raises") and str(e) of the exception raised, if any (error)
Database(module, handle, name, name_value, enum, names, error) ==
    [module |-> module, handle |-> handle, name |-> name,
     name_value |-> name_value, enum |-> enum, names |-> names, error |-> error]

NoDatabase == Database("none", "None", "absent", "", "ok", <<>>, "")

\* os.getenv(key)
getenv(env, key) == IF key \in DOMAIN env THEN Some(env[key]) ELSE None

\* str(e)[:50]
ErrLimit == 50
\* collections[:10]
CollLimit == 10

\* line 158 to 165
response_initial ==
    [backend |-> "[ok] Running",
     database |-> "[x] Not Available",
     database_url |-> None,
     database_name |-> None,
     connection_status |-> "Not Connected",
     collections |-> <<>>]

\* mutant of enumerate_collections: the error message is not truncated
enumerate_collections_whole_error(db, r) ==
    IF db.enum = "raises"
    THEN [r EXCEPT !.database = "[!]  Connected but Error: " \o db.error]
    ELSE [r EXCEPT !.collections = slice_to(db.names, CollLimit),
                   !.database = "[ok] Connected & Working"]

\* mutant of enumerate_collections: the collection names are not capped
enumerate_collections_all_names(db, r) ==
    IF db.enum = "raises"
    THEN [r EXCEPT !.database =
              "[!]  Connected but Error: " \o slice_to(db.error, ErrLimit)]
    ELSE [r EXCEPT !.collections = db.names,
                   !.database = "[ok] Connected & Working"]

\* line 173 to 178: the inner try
enumerate_collections(db, r) ==
    IF db.enum = "raises"
    THEN [r EXCEPT !.database =
              "[!]  Connected but Error: " \o slice_to(db.error, ErrLimit)]
    ELSE [r EXCEPT !.collections = slice_to(db.names, CollLimit),
                   !.database = "[ok] Connected & Working"]

\* line 167 to 180: the body of the outer try; exc is the exception that
\* leaves it ("none" when it completes)
try_body(db, r) ==
    IF db.module # "ok" THEN [response |-> r, exc |-> db.module]
    ELSE IF db.handle # "None" THEN
        LET r1 == [r EXCEPT !.database = "[ok] Available",
                            !.database_url = Some("[ok] Configured")]
        IN  IF db.name = "raises" THEN [response |-> r1, exc |-> "Exception"]
            ELSE LET r2 == [r1 EXCEPT
                          !.database_name =
                              Some(IF db.name = "present" THEN db.name_value
                                   ELSE "[ok] Connected"),
                          !.connection_status = "Connected"]
                 IN  [response |-> enumerate_collections(db, r2), exc |-> "none"]
    ELSE [response |-> [r EXCEPT !.database = "[!]  Available but not initialized"],
          exc |-> "none"]

\* mutant of except_clauses: only ImportError is caught
except_import_error_only(db, t) ==
    IF t.exc = "ImportError"
    THEN [response |-> [t.response EXCEPT !.database =
              "[x] Database module not found (run enable-database first)"],
          exc |-> "none"]
    ELSE t

\* line 181 to 184: the except clauses of the outer try
except_clauses(db, t) ==
    IF t.exc = "ImportError"
    THEN [response |-> [t.response EXCEPT !.database =
              "[x] Database module not found (run enable-database first)"],
          exc |-> "none"]
    ELSE IF t.exc = "Exception"
    THEN [response |-> [t.response EXCEPT !.database =
              "[x] Error: " \o slice_to(db.error, ErrLimit)],
          exc |-> "none"]
    ELSE t

\* mutant of env_flags: database_name keeps what the try block left in it
env_flags_url_only(env, r) ==
    [r EXCEPT
        !.database_url =
            Some(IF truthy(getenv(env, "DATABASE_URL")) THEN "[ok] Set" ELSE "[x] Not Set")]

\* line 185 and 186
env_flags(env, r) ==
    [r EXCEPT
        !.database_url =
            Some(IF truthy(getenv(env, "DATABASE_URL")) THEN "[ok] Set" ELSE "[x] Not Set"),
        !.database_name =
            Some(IF truthy(getenv(env, "DATABASE_NAME")) THEN "[ok] Set" ELSE "[x] Not Set")]

\* GET /test
test_database_result(db, env) ==
    LET t == except_clauses(db, try_body(db, response_initial))
    IN  IF t.exc # "none"
        THEN [status |-> HTTP_SERVER_ERROR, body |-> "Internal Server Error"]
        ELSE [status |-> HTTP_OK, body |-> env_flags(env, t.response)]

-----------------------------------------------------------------------------
(* Inputs *)

Workers == 1..NumWorkers

QueryAlphabet == {" ", "\t", "p", "Y", "c"}

RECURSIVE StringsOfLen(_)
StringsOfLen(n) ==
    IF n = 0 THEN {""}
    ELSE {s \o c : s \in StringsOfLen(n - 1), c \in QueryAlphabet}

ExampleQueries ==
    {"PY", "loops", " py", "Loops ", "html & css", "STL", "zzz", "\n grid\r\n",
     "Python3", "s"}

Queries == UNION {StringsOfLen(n) : n \in 0..MaxQueryLen} \cup ExampleQueries

LangIds == {"python", "c", "cpp", "html", "nonexistent", "Python", "C", "HTML",
            "py", " c"}

EnvKeys == {"DATABASE_URL", "DATABASE_NAME"}
EnvValues == {"", "mongodb://localhost:27017", "appdb"}
Environs == UNION {[D -> EnvValues] : D \in SUBSET EnvKeys}

ErrText == "ServerSelectionTimeoutError: localhost:27017: [Errno 111] Connection refused"
ErrLens == {0, 1} \cup ((ErrLimit - 1)..MaxErrLen)
Errors == {SubSeq(ErrText, 1, n) : n \in ErrLens}

CollNames(n) == [i \in 1..n |-> "coll" \o ToString(i)]
NameAttrs == {<<"absent", "">>, <<"raises", "">>, <<"present", "appdb">>,
              <<"present", "secret">>}

Databases ==
    {Database("ImportError", "None", "absent", "", "ok", <<>>, e) : e \in Errors}
    \cup {Database("Exception", "None", "absent", "", "ok", <<>>, e) : e \in Errors}
    \cup {Database("ok", "None", "absent", "", "ok", <<>>, "")}
    \cup {Database("ok", "object", a[1], a[2], "ok", CollNames(n), "") :
              a \in NameAttrs, n \in 0..MaxColls}
    \cup {Database("ok", "object", a[1], a[2], "raises", <<>>, e) :
              a \in NameAttrs, e \in Errors}

Requests ==
    {[endpoint |-> "/"], [endpoint |-> "/api/hello"], [endpoint |-> "/test"]}
    \cup {[endpoint |-> "/api/languages", q |-> None]}
    \cup {[endpoint |-> "/api/languages", q |-> Some(s)] : s \in Queries}
    \cup {[endpoint |-> "/api/languages/{lang_id}", lang_id |-> i] : i \in LangIds}

\* the requests and collaborator states of the concurrent specification
ConcRequests ==
    {[endpoint |-> "/"], [endpoint |-> "/api/hello"], [endpoint |-> "/test"]}
    \cup {[endpoint |-> "/api/languages", q |-> None]}
    \cup {[endpoint |-> "/api/languages", q |-> Some(s)] : s \in {"", " c", "PY"}}
    \cup {[endpoint |-> "/api/languages/{lang_id}", lang_id |-> i] :
              i \in {"cpp", "Python"}}

ConcDatabases ==
    {Database("ImportError", "None", "absent", "", "ok", <<>>, "No module named 'database'"),
     Database("ok", "None", "absent", "", "ok", <<>>, ""),
     Database("ok", "object", "present", "appdb", "ok", CollNames(CollLimit + 1), ""),
     Database("ok", "object", "raises", "", "raises", <<>>, ErrText)}

-----------------------------------------------------------------------------
(* The server *)

Reply(req, db, result) ==
    [request |-> req, db |-> db, status |-> result.status, body |-> result.body]

Init ==
    /\ LANGUAGES = LANGUAGES_literal
    /\ environ \in Environs
    /\ pending = [w \in Workers |-> NoRequest]
    /\ response = [w \in Workers |-> NoResponse]

\* a request arrives and is given to the idle worker w
Receive(w, req) ==
    /\ pending[w] = NoRequest
    /\ response[w] = NoResponse
    /\ pending' = [pending EXCEPT ![w] = req]
    /\ UNCHANGED <<LANGUAGES, environ, response>>

\* worker w has run its handler, which returned result
Return(w, db, result) ==
    /\ response' = [response EXCEPT ![w] = Reply(pending[w], db, result)]
    /\ pending' = [pending EXCEPT ![w] = NoRequest]
    /\ UNCHANGED <<LANGUAGES, environ>>

read_root(w) ==
    /\ pending[w].endpoint = "/"
    /\ Return(w, NoDatabase, read_root_result)

hello(w) ==
    /\ pending[w].endpoint = "/api/hello"
    /\ Return(w, NoDatabase, hello_result)

\* mutant of list_languages: the catalog is filtered in place
list_languages_in_place(w) ==
    /\ pending[w].endpoint = "/api/languages"
    /\ LANGUAGES' = list_languages_result(pending[w].q)
    /\ response' = [response EXCEPT ![w] =
           Reply(pending[w], NoDatabase, [status |-> HTTP_OK, body |-> LANGUAGES'])]
    /\ pending' = [pending EXCEPT ![w] = NoRequest]
    /\ UNCHANGED environ

list_languages(w) ==
    /\ pending[w].endpoint = "/api/languages"
    /\ Return(w, NoDatabase,
              [status |-> HTTP_OK, body |-> list_languages_result(pending[w].q)])

get_language(w) ==
    /\ pending[w].endpoint = "/api/languages/{lang_id}"
    /\ Return(w, NoDatabase, get_language_result(pending[w].lang_id))

test_database(w, db) ==
    /\ pending[w].endpoint = "/test"
    /\ Return(w, db, test_database_result(db, environ))

\* the response of worker w is sent to the client
Send(w) ==
    /\ response[w] # NoResponse
    /\ response' = [response EXCEPT ![w] = NoResponse]
    /\ UNCHANGED <<LANGUAGES, environ, pending>>

\* one worker: requests are served one after the other
Next ==
    \/ \E req \in Requests : Receive(1, req)
    \/ read_root(1)
    \/ hello(1)
    \/ list_languages(1)
    \/ get_language(1)
    \/ \E db \in Databases : test_database(1, db)
    \/ Send(1)

Spec == Init /\ [][Next]_vars

\* NumWorkers workers: requests are served concurrently
NextConc ==
    \E w \in Workers :
        \/ \E req \in ConcRequests : Receive(w, req)
        \/ read_root(w)
        \/ hello(w)
        \/ list_languages(w)
        \/ get_language(w)
        \/ \E db \in ConcDatabases : test_database(w, db)
        \/ Send(w)

SpecConc == Init /\ [][NextConc]_vars

-----------------------------------------------------------------------------
(* Vocabulary of the properties *)

Done(w) == response[w] # NoResponse

\* worker w holds the response to a request for endpoint e
Answered(w, e) == Done(w) /\ response[w].request.endpoint = e

Ids(langs) == [i \in 1..Len(langs) |-> langs[i].id]

CatalogIds == <<"python", "c", "cpp", "html">>

\* s without its leading and trailing whitespace
NonBlank(s) == {i \in 1..Len(s) : SubSeq(s, i, i) \notin Whitespace}
Trimmed(s) ==
    IF NonBlank(s) = {} THEN ""
    ELSE LET N == NonBlank(s)
             lo == CHOOSE i \in N : \A j \in N : i <= j
             hi == CHOOSE i \in N : \A j \in N : j <= i
         IN  SubSeq(s, lo, hi)

\* the name and the topics of catalog entry i, in lower case
LoweredTexts ==
    [i \in 1..Len(LANGUAGES_literal) |->
        {str_lower(LANGUAGES_literal[i].name)}
        \cup {str_lower(LANGUAGES_literal[i].topics[k]) :
                  k \in 1..Len(LANGUAGES_literal[i].topics)}]

\* s occurs in text
Occurs(s, text) ==
    \E i \in 1..(Len(text) - Len(s) + 1) : SubSeq(text, i, i + Len(s) - 1) = s

\* the catalog entries (by position) whose name or one of whose topics contains
\* s, letter case ignored
Matching(s) ==
    LET ls == str_lower(s)
    IN  {i \in 1..Len(LANGUAGES_literal) : \E t \in LoweredTexts[i] : Occurs(ls, t)}

\* body is the entries at the positions M, each once, in catalog order
IsSelection(body, M) ==
    /\ Len(body) = Cardinality(M)
    /\ \A k \in 1..Len(body) :
           body[k] = LANGUAGES_literal[
               CHOOSE i \in M : Cardinality({j \in M : j < i}) = k - 1]

\* worker w holds the response to a search with a non-empty query
Searched(w) ==
    /\ Answered(w, "/api/languages")
    /\ truthy(response[w].request.q)

-----------------------------------------------------------------------------
(* C1 *)

\* C1, as stated: for every non-empty q the search returns exactly the catalog
\* entries whose name or one of whose topics contains q itself (letter case
\* ignored), each once and in catalog order.
C1_SearchMatchesQueryAsGiven ==
    \A w \in Workers :
        Searched(w) =>
            /\ response[w].status = HTTP_OK
            /\ IsSelection(response[w].body, Matching(response[w].request.q.str))

\* C1, amended: for every non-empty q the search returns exactly the catalog
\* entries whose name or one of whose topics contains q stripped of leading and
\* trailing whitespace (letter case ignored), each once and in catalog order;
\* search("PY") and search("loops") each return exactly the python entry.
C1_SearchMatchesTrimmedQuery ==
    \A w \in Workers :
        Searched(w) =>
            LET q == response[w].request.q.str
            IN  /\ response[w].status = HTTP_OK
                /\ IsSelection(response[w].body, Matching(Trimmed(q)))
                /\ q \in {"PY", "loops"} => Ids(response[w].body) = <<"python">>

C1_Witness ==
    \E w \in Workers :
        /\ Searched(w)
        /\ response[w].request.q.str = "Loops "
        /\ Matching("Loops ") = {}
        /\ Ids(response[w].body) = <<"python">>

-----------------------------------------------------------------------------
(* C2 *)

\* C2: whenever GET /api/languages is answered for q absent or q = "", the
\* answer is 200 with the full catalog: the 4 records python, c, cpp, html in
\* that order.
C2_NoQueryReturnsCatalog ==
    \A w \in Workers :
        (/\ Answered(w, "/api/languages")
         /\ \/ response[w].request.q.isNone
            \/ response[w].request.q.str = "") =>
            /\ response[w].status = HTTP_OK
            /\ response[w].body = LANGUAGES_literal
            /\ Len(response[w].body) = 4
            /\ Ids(response[w].body) = CatalogIds

C2_Witness ==
    \E w \in Workers :
        /\ Answered(w, "/api/languages")
        /\ response[w].request.q = Some("")
        /\ Ids(response[w].body) = CatalogIds

-----------------------------------------------------------------------------
(* C3 *)

\* C3: GET /api/languages/{lang_id} answers 200 with the one catalog record
\* whose id is exactly lang_id when there is one (ids are unique), and
\* otherwise 404 with the body {"detail": "Language not found"}; "nonexistent"
\* and the case variant "Python" are answered 404.
C3_GetByIdExactOrNotFound ==
    /\ \A i, j \in 1..Len(LANGUAGES_literal) :
           LANGUAGES_literal[i].id = LANGUAGES_literal[j].id => i = j
    /\ \A w \in Workers :
           Answered(w, "/api/languages/{lang_id}") =>
               LET lang_id == response[w].request.lang_id
                   hits == {i \in 1..Len(LANGUAGES_literal) :
                               LANGUAGES_literal[i].id = lang_id}
               IN  /\ hits # {} =>
                          /\ response[w].status = HTTP_OK
                          /\ response[w].body.id = lang_id
                          /\ \E i \in hits : response[w].body = LANGUAGES_literal[i]
                   /\ hits = {} =>
                          /\ response[w].status = HTTP_NOT_FOUND
                          /\ response[w].body = [detail |-> "Language not found"]
                   /\ lang_id \in {"python", "c", "cpp", "html"} => hits # {}
                   /\ lang_id \in {"nonexistent", "Python"} =>
                          response[w].status = HTTP_NOT_FOUND

C3_Witness ==
    \E w \in Workers :
        /\ Answered(w, "/api/languages/{lang_id}")
        /\ response[w].request.lang_id = "Python"
        /\ response[w].status = HTTP_NOT_FOUND

-----------------------------------------------------------------------------
(* C4 *)

\* C4: every answer to GET /test has status 200 and the diagnostics body,
\* whatever the import of the database module, the handle, its attributes and
\* the enumeration of its collections do.
C4_TestAlwaysOk ==
    \A w \in Workers :
        Answered(w, "/test") =>
            /\ response[w].status = HTTP_OK
            /\ response[w].body.backend = "[ok] Running"
            /\ DOMAIN response[w].body = DOMAIN response_initial

C4_Witness ==
    \E w \in Workers :
        /\ Answered(w, "/test")
        /\ response[w].db.module = "ok"
        /\ response[w].db.handle = "object"
        /\ response[w].db.name = "raises"
        /\ response[w].status = HTTP_OK

-----------------------------------------------------------------------------
(* C5 *)

\* key is in the environment
IsSet(env, key) == key \in DOMAIN env

\* key is in the environment with a non-empty value
IsSetNonEmpty(env, key) == key \in DOMAIN env /\ env[key] # ""

\* every other run of GET /test whose environment stands to this one's in the
\* relation Same for DATABASE_URL reports the same database_url, and likewise
\* for DATABASE_NAME and database_name, whatever its database collaborator does
FlagsDeterminedBy(Same(_, _, _)) ==
    \A w \in Workers :
        (Answered(w, "/test") /\ response[w].status = HTTP_OK) =>
            \A env2 \in Environs, db2 \in ConcDatabases :
                LET other == test_database_result(db2, env2)
                IN  /\ other.status = HTTP_OK
                    /\ Same(environ, env2, "DATABASE_URL") =>
                           other.body.database_url = response[w].body.database_url
                    /\ Same(environ, env2, "DATABASE_NAME") =>
                           other.body.database_name = response[w].body.database_name

SamePresence(env1, env2, key) == IsSet(env1, key) <=> IsSet(env2, key)

SameNonEmptiness(env1, env2, key) ==
    IsSetNonEmpty(env1, key) <=> IsSetNonEmpty(env2, key)

\* C5, as stated: two runs of GET /test that agree on whether DATABASE_URL is
\* set report the same database_url, and two that agree on whether
\* DATABASE_NAME is set report the same database_name, whatever the values of
\* the variables and the state of the database module and handle.
C5_FlagsFollowPresence == FlagsDeterminedBy(SamePresence)

\* C5, amended: two runs of GET /test that agree on whether DATABASE_URL is set
\* to a non-empty value report the same database_url, and two that agree on
\* whether DATABASE_NAME is set to a non-empty value report the same
\* database_name, whatever the values of the variables and the state of the
\* database module and handle; a variable set to the empty string is reported
\* like an unset one.
C5_FlagsFollowNonEmptiness ==
    /\ FlagsDeterminedBy(SameNonEmptiness)
    /\ \A w \in Workers :
           (Answered(w, "/test") /\ response[w].status = HTTP_OK) =>
               /\ response[w].body.database_url.str \in {"[ok] Set", "[x] Not Set"}
               /\ response[w].body.database_name.str \in {"[ok] Set", "[x] Not Set"}
               /\ response[w].body.database_url.str = "[ok] Set"
                      <=> IsSetNonEmpty(environ, "DATABASE_URL")
               /\ response[w].body.database_name.str = "[ok] Set"
                      <=> IsSetNonEmpty(environ, "DATABASE_NAME")

C5_Witness ==
    \E w \in Workers :
        /\ Answered(w, "/test")
        /\ response[w].db.name = "present"
        /\ response[w].db.name_value = "secret"
        /\ IsSet(environ, "DATABASE_NAME")
        /\ environ["DATABASE_NAME"] = ""
        /\ response[w].body.database_name = Some("[x] Not Set")

-----------------------------------------------------------------------------
(* C6 *)

\* the handler reached list_collection_names()
Enumerated(db) == db.module = "ok" /\ db.handle = "object" /\ db.name # "raises"

\* C6: the database field of the answer to GET /test is the "module not found"
\* text when the module cannot be imported, "available but not initialized"
\* when the imported handle is None, "connected & working" when the
\* enumeration of the collections of a handle succeeds, and "connected but
\* error" followed by the first 50 characters of the message (the whole
\* message when it is shorter) when the enumeration raises.
C6_DatabaseFieldClassifies ==
    \A w \in Workers :
        (Answered(w, "/test") /\ response[w].status = HTTP_OK) =>
            LET db == response[w].db
                d == response[w].body.database
            IN  /\ db.module = "ImportError" =>
                       d = "[x] Database module not found (run enable-database first)"
                /\ (db.module = "ok" /\ db.handle = "None") =>
                       d = "[!]  Available but not initialized"
                /\ (Enumerated(db) /\ db.enum = "ok") =>
                       d = "[ok] Connected & Working"
                /\ (Enumerated(db) /\ db.enum = "raises") =>
                       \E n \in 0..ErrLimit :
                           /\ n = Len(db.error) \/ (n = ErrLimit /\ Len(db.error) > n)
                           /\ d = "[!]  Connected but Error: " \o SubSeq(db.error, 1, n)

C6_Witness ==
    \E w \in Workers :
        /\ Answered(w, "/test")
        /\ Enumerated(response[w].db)
        /\ response[w].db.enum = "raises"
        /\ Len(response[w].db.error) > ErrLimit
        /\ Len(response[w].body.database)
               = Len("[!]  Connected but Error: ") + ErrLimit

-----------------------------------------------------------------------------
(* C7 *)

\* C7: the collections field of every answer to GET /test has at most 10
\* entries: the first min(10, n) of the n enumerated names, in their order,
\* when the enumeration succeeds, and no entry on every other path.
C7_CollectionsCapped ==
    \A w \in Workers :
        (Answered(w, "/test") /\ response[w].status = HTTP_OK) =>
            LET db == response[w].db
                c == response[w].body.collections
            IN  /\ Len(c) <= 10
                /\ (Enumerated(db) /\ db.enum = "ok") =>
                       /\ Len(c) = IF Len(db.names) < 10 THEN Len(db.names) ELSE 10
                       /\ \A i \in 1..Len(c) : c[i] = db.names[i]
                /\ ~(Enumerated(db) /\ db.enum = "ok") => c = <<>>

C7_Witness ==
    \E w \in Workers :
        /\ Answered(w, "/test")
        /\ Enumerated(response[w].db)
        /\ response[w].db.enum = "ok"
        /\ Len(response[w].db.names) > 10
        /\ Len(response[w].body.collections) = 10

-----------------------------------------------------------------------------
(* C8 *)

CatalogEndpoints == {"/api/languages", "/api/languages/{lang_id}"}

\* C8: under any interleaving of concurrently served requests the catalog
\* equals its value at process start, and two answers to the same catalog
\* request are the same whatever was served before them.
C8_CatalogNeverMutated ==
    /\ LANGUAGES = LANGUAGES_literal
    /\ \A w1, w2 \in Workers :
           (/\ Done(w1) /\ Done(w2)
            /\ response[w1].request.endpoint \in CatalogEndpoints
            /\ response[w1].request = response[w2].request) =>
               /\ response[w1].status = response[w2].status
               /\ response[w1].body = response[w2].body

C8_Witness ==
    \E w1, w2 \in Workers :
        /\ w1 # w2
        /\ Answered(w1, "/api/languages")
        /\ Answered(w2, "/api/languages")
        /\ response[w1].request.q = Some("PY")
        /\ response[w2].request.q = Some("PY")
        /\ Ids(response[w1].body) = <<"python">>
        /\ Ids(response[w2].body) = <<"python">>

-----------------------------------------------------------------------------
(* C9 *)

\* C9: every answer has status 200, except the answer to
\* GET /api/languages/{lang_id} for an id that is not in the catalog, which
\* has status 404.
C9_Only404 ==
    \A w \in Workers :
        Done(w) =>
            LET req == response[w].request
                miss == /\ req.endpoint = "/api/languages/{lang_id}"
                        /\ \A i \in 1..Len(CatalogIds) : CatalogIds[i] # req.lang_id
            IN  /\ miss => response[w].status = HTTP_NOT_FOUND
                /\ ~miss => response[w].status = HTTP_OK

C9_Witness ==
    \E w \in Workers :
        /\ Answered(w, "/api/languages")
        /\ response[w].request.q = Some("zzz")
        /\ response[w].status = HTTP_OK
        /\ response[w].body = <<>>

-----------------------------------------------------------------------------
(* C10 *)

\* C10: the answer to a search with a non-empty q is the answer to the search
\* with q stripped of leading and trailing whitespace; a q of whitespace only
\* is answered with the full catalog in order, and " py" with the python entry
\* although no name or topic contains " py".
C10_SearchTrimsQuery ==
    \A w \in Workers :
        Searched(w) =>
            LET q == response[w].request.q.str
            IN  /\ response[w].body = list_languages_result(Some(Trimmed(q)))
                /\ Trimmed(q) = "" => Ids(response[w].body) = CatalogIds
                /\ q = " py" =>
                       /\ Ids(response[w].body) = <<"python">>
                       /\ Matching(q) = {}

C10_Witness ==
    \E w \in Workers :
        /\ Searched(w)
        /\ response[w].request.q.str = " \t"
        /\ Ids(response[w].body) = CatalogIds

====
